---- MODULE Spec2Model ----
(***************************************************************************)
(* Console checkers (CheckersGame.cpp): the 8x8 board, the move generator, *)
(* applyMove / maybePromote and the main game loop, with the text read     *)
(* from standard input as the environment.                                 *)
(***************************************************************************)
EXTENDS Integers, Sequences, FiniteSets, TLC

(* ------------------------- enum Piece, enum Player --------------------- *)
EMPTY == 0
W_MAN == 1
W_KING == 2
B_MAN == 3
B_KING == 4

WHITE == 1
BLACK == 2

Players == {WHITE, BLACK}

\* the board is int board[8][8]
N == 8
Idx == 0 .. (N - 1)

\* number of accepted moves explored after the recorded opening is used up
MaxFree == 3

(* ------------------------- utility helpers ----------------------------- *)
inBounds(r, c) == r >= 0 /\ r < N /\ c >= 0 /\ c < N

\* mutant: the parity of the dark squares taken the wrong way round
isDarkSquare_even(r, c) == (r + c) % 2 = 0

isDarkSquare(r, c) == (r + c) % 2 = 1

isKing(p) == p = W_KING \/ p = B_KING

belongsTo(p, pl) ==
    IF p = EMPTY THEN FALSE
    ELSE IF pl = WHITE THEN p = W_MAN \/ p = W_KING
    ELSE p = B_MAN \/ p = B_KING

isEnemy(a, b) ==
    IF a = EMPTY \/ b = EMPTY THEN FALSE
    ELSE LET aWhite == (a = W_MAN \/ a = W_KING)
             bWhite == (b = W_MAN \/ b = W_KING)
         IN  aWhite # bWhite

\* mutant: the rows of the two players exchanged
forwardDir_reversed(pl) == IF pl = WHITE THEN -1 ELSE 1

forwardDir(pl) == IF pl = WHITE THEN 1 ELSE -1

Other(pl) == IF pl = WHITE THEN BLACK ELSE WHITE

(* ------------------------- board setup --------------------------------- *)
\* a static array is zero-initialised: all EMPTY before initBoard runs
ZeroBoard == [r \in Idx |-> [c \in Idx |-> EMPTY]]

initBoard ==
    [r \in Idx |-> [c \in Idx |->
        IF r < 3 /\ isDarkSquare(r, c) THEN W_MAN
        ELSE IF r >= 5 /\ isDarkSquare(r, c) THEN B_MAN
        ELSE EMPTY]]

(* ------------------------- struct Move --------------------------------- *)
Mv(fr, fc, tr, tc, cap, cr, cc) ==
    [fr |-> fr, fc |-> fc, tr |-> tr, tc |-> tc, isCapture |-> cap, cr |-> cr, cc |-> cc]

NoMove == Mv(-1, -1, -1, -1, FALSE, -1, -1)
NoPos == <<-1, -1>>

RECURSIVE Flat(_)
\* res.insert(res.end(), m.begin(), m.end()) over a sequence of vectors, in order
Flat(ss) == IF ss = <<>> THEN <<>> ELSE Head(ss) \o Flat(Tail(ss))

\* mutant: a direction listed twice
KingDirs_dup == << <<1, 1>>, <<1, -1>>, <<-1, 1>>, <<-1, -1>>, <<1, 1>> >>

KingDirs == << <<1, 1>>, <<1, -1>>, <<-1, 1>>, <<-1, -1>> >>
ManDirs(d) == << <<d, 1>>, <<d, -1>> >>

\* mutant: every piece given the four directions of a king
Dirs_allKings(p, pl) == KingDirs

Dirs(p, pl) == IF isKing(p) THEN KingDirs ELSE ManDirs(forwardDir(pl))

(* ------------------------- move generation ----------------------------- *)
\* mutant: the landing cell recorded as the captured position
captureMovesFrom_landing(b, r, c, pl) ==
    LET q == b[r][c]
        dirs == IF q = W_KING \/ q = B_KING THEN KingDirs ELSE ManDirs(IF pl = WHITE THEN 1 ELSE -1)
        one(d) ==
            LET r1 == r + d[1]
                c1 == c + d[2]
                r2 == r + 2 * d[1]
                c2 == c + 2 * d[2]
            IN  IF ~inBounds(r1, c1) \/ ~inBounds(r2, c2) THEN <<>>
                ELSE IF b[r2][c2] # EMPTY THEN <<>>
                ELSE IF isEnemy(q, b[r1][c1]) THEN << Mv(r, c, r2, c2, TRUE, r2, c2) >>
                ELSE <<>>
    IN  IF ~belongsTo(q, pl) THEN <<>>
        ELSE Flat([i \in 1 .. Len(dirs) |-> one(dirs[i])])

captureMovesFrom(b, r, c, pl) ==
    LET p == b[r][c]
        dirs == Dirs(p, pl)
        one(d) ==
            LET r1 == r + d[1]
                c1 == c + d[2]
                r2 == r + 2 * d[1]
                c2 == c + 2 * d[2]
            IN  IF ~inBounds(r1, c1) \/ ~inBounds(r2, c2) THEN <<>>
                ELSE IF b[r2][c2] # EMPTY THEN <<>>
                ELSE IF isEnemy(p, b[r1][c1]) THEN << Mv(r, c, r2, c2, TRUE, r1, c1) >>
                ELSE <<>>
    IN  IF ~belongsTo(p, pl) THEN <<>>
        ELSE Flat([i \in 1 .. Len(dirs) |-> one(dirs[i])])

simpleMovesFrom(b, r, c, pl) ==
    LET p == b[r][c]
        dirs == Dirs(p, pl)
        one(d) ==
            LET r2 == r + d[1]
                c2 == c + d[2]
            IN  IF ~inBounds(r2, c2) THEN <<>>
                ELSE IF b[r2][c2] # EMPTY THEN <<>>
                ELSE << Mv(r, c, r2, c2, FALSE, -1, -1) >>
    IN  IF ~belongsTo(p, pl) THEN <<>>
        ELSE Flat([i \in 1 .. Len(dirs) |-> one(dirs[i])])

\* the row-major double loop over the board: cell i-1 is (r, c) = ((i-1) / 8, (i-1) % 8)
allCaptures(b, pl) ==
    Flat([i \in 1 .. (N * N) |-> captureMovesFrom(b, (i - 1) \div N, (i - 1) % N, pl)])

allSimple(b, pl) ==
    Flat([i \in 1 .. (N * N) |-> simpleMovesFrom(b, (i - 1) \div N, (i - 1) % N, pl)])

\* mutant: captures are offered but not made mandatory
allLegalMoves_optional(b, pl) == allCaptures(b, pl) \o allSimple(b, pl)

allLegalMoves(b, pl) ==
    LET caps == allCaptures(b, pl)
    IN  IF caps # <<>> THEN caps ELSE allSimple(b, pl)

countPieces(b, pl) ==
    Cardinality({rc \in Idx \X Idx : belongsTo(b[rc[1]][rc[2]], pl)})

\* mutant: a submission matched by its destination alone
sameMove_destOnly(a, fr, fc, tr, tc) == a.tr = tr /\ a.tc = tc

sameMove(a, fr, fc, tr, tc) == a.fr = fr /\ a.fc = fc /\ a.tr = tr /\ a.tc = tc

\* std::find_if over a sequence, given the test's verdict on each element: the
\* first element satisfying the test, 0 for end()
FindIf(hit) ==
    IF \E i \in 1 .. Len(hit) : hit[i]
    THEN CHOOSE i \in 1 .. Len(hit) : hit[i] /\ \A j \in 1 .. (i - 1) : ~hit[j]
    ELSE 0

(* ------------------------- applyMove, maybePromote --------------------- *)
\* mutant: the captured piece is left on the board
applyMove_keepCaptured(b, mv) ==
    LET q  == b[mv.fr][mv.fc]
        b1 == [b  EXCEPT ![mv.tr][mv.tc] = q]
    IN  [b1 EXCEPT ![mv.fr][mv.fc] = EMPTY]

\* mutant: the origin is not cleared
applyMove_keepOrigin(b, mv) ==
    LET q  == b[mv.fr][mv.fc]
        b1 == [b  EXCEPT ![mv.tr][mv.tc] = q]
    IN  IF mv.isCapture THEN [b1 EXCEPT ![mv.cr][mv.cc] = EMPTY] ELSE b1

\* mutant: a man crowned as soon as it is put down on its last row
applyMove_promoting(b, mv) ==
    LET q  == b[mv.fr][mv.fc]
        k  == IF q = W_MAN /\ mv.tr = N - 1 THEN W_KING
              ELSE IF q = B_MAN /\ mv.tr = 0 THEN B_KING ELSE q
        b1 == [b  EXCEPT ![mv.tr][mv.tc] = k]
        b2 == [b1 EXCEPT ![mv.fr][mv.fc] = EMPTY]
    IN  IF mv.isCapture THEN [b2 EXCEPT ![mv.cr][mv.cc] = EMPTY] ELSE b2

applyMove(b, mv) ==
    LET p  == b[mv.fr][mv.fc]
        b1 == [b  EXCEPT ![mv.tr][mv.tc] = p]
        b2 == [b1 EXCEPT ![mv.fr][mv.fc] = EMPTY]
    IN  IF mv.isCapture THEN [b2 EXCEPT ![mv.cr][mv.cc] = EMPTY] ELSE b2

\* mutant: the promotion rows of the two players swapped
maybePromote_swapped(b, r, c) ==
    LET q  == b[r][c]
        b1 == IF q = W_MAN /\ r = 0 THEN [b EXCEPT ![r][c] = W_KING] ELSE b
    IN  IF q = B_MAN /\ r = 7 THEN [b1 EXCEPT ![r][c] = B_KING] ELSE b1

\* mutant: only Player1's men are crowned
maybePromote_whiteOnly(b, r, c) ==
    IF b[r][c] = W_MAN /\ r = N - 1 THEN [b EXCEPT ![r][c] = W_KING] ELSE b

maybePromote(b, r, c) ==
    LET p  == b[r][c]
        b1 == IF p = W_MAN /\ r = 7 THEN [b EXCEPT ![r][c] = W_KING] ELSE b
    IN  IF p = B_MAN /\ r = 0 THEN [b1 EXCEPT ![r][c] = B_KING] ELSE b1

(* ------------------------- parseSquare --------------------------------- *)
\* a token is a sequence of characters; a character is a one-letter string
Lower == << "a","b","c","d","e","f","g","h","i","j","k","l","m",
            "n","o","p","q","r","s","t","u","v","w","x","y","z" >>
Upper == << "A","B","C","D","E","F","G","H","I","J","K","L","M",
            "N","O","P","Q","R","S","T","U","V","W","X","Y","Z" >>
Digit == << "0","1","2","3","4","5","6","7","8","9" >>

Range(s) == {s[i] : i \in 1 .. Len(s)}
IndexIn(s, ch) == CHOOSE i \in 1 .. Len(s) : s[i] = ch

isalpha(ch) == ch \in Range(Lower) \cup Range(Upper)
isdigit(ch) == ch \in Range(Digit)
tolower(ch) == IF ch \in Range(Upper) THEN Lower[IndexIn(Upper, ch)] ELSE ch

\* the character's code ('a' = 97, 'A' = 65, '0' = 48); other characters of the
\* modelled alphabet are punctuation, below '0'
Ord(ch) ==
    IF ch \in Range(Lower) THEN 96 + IndexIn(Lower, ch)
    ELSE IF ch \in Range(Upper) THEN 64 + IndexIn(Upper, ch)
    ELSE IF ch \in Range(Digit) THEN 47 + IndexIn(Digit, ch)
    ELSE 44

\* mutant: the file read at the first place of the token and the rank at the second
parseSquare_positional(token) ==
    LET file == IF Len(token) < 1 THEN 0 ELSE Ord(tolower(token[1]))
        rank == IF Len(token) < 2 THEN 0 ELSE Ord(token[2])
        c    == file - Ord("a")
        r    == rank - Ord("1")
    IN  IF Len(token) < 2 THEN [ok |-> FALSE, r |-> -1, c |-> -1]
        ELSE IF file < Ord("a") \/ file > Ord("h") THEN [ok |-> FALSE, r |-> -1, c |-> -1]
        ELSE IF rank < Ord("1") \/ rank > Ord("8") THEN [ok |-> FALSE, r |-> -1, c |-> -1]
        ELSE [ok |-> inBounds(r, c), r |-> r, c |-> c]

parseSquare(token) ==
    LET fi   == FindIf([i \in 1 .. Len(token) |-> isalpha(token[i])])
        ri   == FindIf([i \in 1 .. Len(token) |-> isdigit(token[i])])
        file == IF fi = 0 THEN 0 ELSE Ord(tolower(token[fi]))
        rank == IF ri = 0 THEN 0 ELSE Ord(token[ri])
        c    == file - Ord("a")
        r    == rank - Ord("1")
    IN  IF Len(token) < 2 THEN [ok |-> FALSE, r |-> -1, c |-> -1]
        ELSE IF file < Ord("a") \/ file > Ord("h") THEN [ok |-> FALSE, r |-> -1, c |-> -1]
        ELSE IF rank < Ord("1") \/ rank > Ord("8") THEN [ok |-> FALSE, r |-> -1, c |-> -1]
        ELSE [ok |-> inBounds(r, c), r |-> r, c |-> c]

(* ------------------------- standard input ------------------------------ *)
\* Three recorded games (every move legal, played from the standard layout); a
\* run starts with a prefix of one of them on standard input and goes on with
\* any tokens at all.
GameA == <<
    <<"f","3">>, <<"e","4">>, <<"g","6">>, <<"f","5">>, <<"e","4">>, <<"g","6">>, <<"f","7">>, <<"h","5">>,
    <<"d","3">>, <<"c","4">>, <<"e","6">>, <<"f","5">>, <<"b","3">>, <<"a","4">>, <<"h","5">>, <<"g","4">>,
    <<"a","2">>, <<"b","3">>, <<"c","6">>, <<"b","5">>, <<"a","4">>, <<"c","6">>, <<"b","7">>, <<"d","5">>,
    <<"c","4">>, <<"e","6">>, <<"c","8">>, <<"b","7">>, <<"e","6">>, <<"c","8">>, <<"e","8">>, <<"d","7">>,
    <<"c","8">>, <<"e","6">>, <<"g","8">>, <<"f","7">>, <<"e","6">>, <<"g","8">>, <<"f","5">>, <<"e","4">>,
    <<"h","3">>, <<"f","5">>, <<"e","4">>, <<"d","3">>, <<"e","2">>, <<"c","4">>, <<"a","6">>, <<"b","5">>,
    <<"c","4">>, <<"a","6">>, <<"c","8">>, <<"a","8">>, <<"b","7">>, <<"c","8">>, <<"a","6">>, <<"h","7">>,
    <<"g","6">>, <<"f","5">>, <<"h","7">> >>

GameB == <<
    <<"h","3">>, <<"g","4">>, <<"a","6">>, <<"b","5">>, <<"b","3">>, <<"c","4">>, <<"e","6">>, <<"f","5">>,
    <<"c","4">>, <<"a","6">>, <<"f","5">>, <<"h","3">>, <<"d","3">>, <<"c","4">>, <<"f","7">>, <<"e","6">>,
    <<"c","2">>, <<"d","3">>, <<"c","6">>, <<"d","5">>, <<"d","1">>, <<"c","2">>, <<"d","5">>, <<"b","3">>,
    <<"d","1">>, <<"f","3">>, <<"e","4">>, <<"d","1">>, <<"f","3">>, <<"d","5">>, <<"d","3">>, <<"e","4">>,
    <<"d","5">>, <<"f","3">>, <<"g","2">>, <<"e","4">>, <<"e","6">>, <<"f","5">>, <<"b","1">>, <<"c","2">>,
    <<"f","5">>, <<"d","3">>, <<"b","1">>, <<"a","2">>, <<"b","3">>, <<"b","1">>, <<"a","2">>, <<"f","1">>,
    <<"e","2">>, <<"a","2">>, <<"c","4">>, <<"e","2">>, <<"d","3">>, <<"c","4">>, <<"e","2">>, <<"h","1">>,
    <<"g","2">>, <<"h","3">>, <<"f","1">> >>

GameC == <<
    <<"h","3">>, <<"g","4">>, <<"g","6">>, <<"h","5">>, <<"d","3">>, <<"c","4">>, <<"h","7">>, <<"g","6">>,
    <<"c","4">>, <<"b","5">>, <<"a","6">>, <<"c","4">>, <<"b","3">>, <<"d","5">>, <<"c","6">>, <<"e","4">>,
    <<"f","3">>, <<"d","5">>, <<"e","6">>, <<"c","4">>, <<"c","2">>, <<"b","3">>, <<"h","5">>, <<"f","3">>,
    <<"g","2">>, <<"e","4">>, <<"d","7">>, <<"e","6">>, <<"b","3">>, <<"d","5">>, <<"e","6">>, <<"c","4">>,
    <<"a","2">>, <<"b","3">>, <<"c","4">>, <<"a","2">>, <<"b","1">>, <<"c","2">>, <<"a","2">>, <<"b","1">>,
    <<"f","1">>, <<"g","2">>, <<"b","1">>, <<"d","3">>, <<"f","1">>, <<"h","3">> >>

\* how many tokens of each game are replayed before the input becomes arbitrary
CutsA == {0, 28, 48, 55}
CutsB == {22, 55}
CutsC == {38, 42}

Openings == {SubSeq(GameA, 1, k) : k \in CutsA} \cup {SubSeq(GameB, 1, k) : k \in CutsB}
                \cup {SubSeq(GameC, 1, k) : k \in CutsC}

Files == {"a","b","c","d","e","f","g","h"}
Ranks == {"1","2","3","4","5","6","7","8"}
GoodTokens == {<<f, d>> : f \in Files, d \in Ranks}
BadTokens == { <<"z","9">>, <<"a">> }
Tokens == GoodTokens \cup BadTokens

Drop(s, n) == IF Len(s) <= n THEN <<>> ELSE SubSeq(s, n + 1, Len(s))

\* parseSquare, tabulated once over every token the input can hold (and the
\* empty string a failed read leaves behind)
Parsed == [t \in Tokens \cup Range(GameA) \cup Range(GameB) \cup Range(GameC) \cup {<<>>} |-> parseSquare(t)]

(* ------------------------- state of main() ----------------------------- *)
VARIABLES
    board,     \* static int board[8][8]
    turn,      \* Player turn
    pc,        \* where main() stands: init, loop, read, chain, readnext, endturn, over, exit
    legal,     \* auto legal = allLegalMoves(turn)
    nextCaps,  \* auto nextCaps = captureMovesFrom(curR, curC, turn)
    mv,        \* the move last handed to applyMove
    cur,       \* <<curR, curC>>
    p,         \* Piece p = board[fr][fc] of the accepted initial move
    out,       \* what the program answered last
    winner,    \* the player named in the GAME OVER line, 0 while there is none
    reason,    \* the reason named in the GAME OVER line
    inp,       \* recorded tokens still waiting on standard input
    free,      \* accepted moves made from arbitrary input
    eof        \* standard input has reported end of input

vars == <<board, turn, pc, legal, nextCaps, mv, cur, p, out, winner, reason, inp, free, eof>>

InitialRejections == {"InvalidFormat", "NotDarkSquare", "NotOwnPiece", "DestinationOccupied", "NotInLegalSet"}
ChainRejections == {"BadSquare", "NotAForcedLanding"}

Init ==
    /\ board = ZeroBoard
    /\ turn = WHITE
    /\ pc = "init"
    /\ legal = <<>>
    /\ nextCaps = <<>>
    /\ mv = NoMove
    /\ cur = NoPos
    /\ p = EMPTY
    /\ out = "None"
    /\ winner = 0
    /\ reason = "None"
    /\ inp \in Openings
    /\ free = 0
    /\ eof = FALSE

\* initBoard(); Player turn = WHITE;
Start ==
    /\ pc = "init"
    /\ board' = initBoard
    /\ turn' = WHITE
    /\ pc' = "loop"
    /\ UNCHANGED <<legal, nextCaps, mv, cur, p, out, winner, reason, inp, free, eof>>

\* mutant: win condition 2 left out
Outcome_noStalemate(b, t) ==
    IF countPieces(b, WHITE) = 0 THEN [winner |-> BLACK, reason |-> "NoPieces"]
    ELSE IF countPieces(b, BLACK) = 0 THEN [winner |-> WHITE, reason |-> "NoPieces"]
    ELSE [winner |-> 0, reason |-> "None"]

\* mutant: the side without pieces named as the winner
Outcome_wrongWinner(b, t) ==
    IF countPieces(b, WHITE) = 0 THEN [winner |-> WHITE, reason |-> "NoPieces"]
    ELSE IF countPieces(b, BLACK) = 0 THEN [winner |-> BLACK, reason |-> "NoPieces"]
    ELSE IF allLegalMoves(b, t) = <<>> THEN [winner |-> Other(t), reason |-> "NoLegalMoves"]
    ELSE [winner |-> 0, reason |-> "None"]

\* the two win conditions at the top of the game loop
Outcome(b, t) ==
    IF countPieces(b, WHITE) = 0 THEN [winner |-> BLACK, reason |-> "NoPieces"]
    ELSE IF countPieces(b, BLACK) = 0 THEN [winner |-> WHITE, reason |-> "NoPieces"]
    ELSE IF allLegalMoves(b, t) = <<>> THEN [winner |-> Other(t), reason |-> "NoLegalMoves"]
    ELSE [winner |-> 0, reason |-> "None"]

\* top of while (true): a winner is printed and the loop is left
GameOver ==
    /\ pc = "loop"
    /\ Outcome(board, turn).winner # 0
    /\ winner' = Outcome(board, turn).winner
    /\ reason' = Outcome(board, turn).reason
    /\ out' = "GameOver"
    /\ pc' = "over"
    /\ UNCHANGED <<board, turn, legal, nextCaps, mv, cur, p, inp, free, eof>>

\* top of while (true): the game goes on, the board and the prompt are printed;
\* the locals of the loop body are declared afresh
TurnStart ==
    /\ pc = "loop"
    /\ Outcome(board, turn).winner = 0
    /\ legal' = allLegalMoves(board, turn)
    /\ out' = "Prompt"
    /\ pc' = "read"
    /\ mv' = NoMove
    /\ cur' = NoPos
    /\ p' = EMPTY
    /\ nextCaps' = <<>>
    /\ UNCHANGED <<board, turn, winner, reason, inp, free, eof>>

\* the k-th token of the next read: the recorded one while there is one
Avail(k) == IF Len(inp) >= k THEN {inp[k]} ELSE Tokens

\* the checks of an initial move, in the order main() makes them; it is the
\* index into legal of the move found, 0 when the submission is rejected
submitMove(b, t, lg, t1, t2) ==
    LET a == Parsed[t1]
        d == Parsed[t2]
    IN  IF ~a.ok \/ ~d.ok THEN [out |-> "InvalidFormat", it |-> 0]
        ELSE IF ~isDarkSquare(d.r, d.c) THEN [out |-> "NotDarkSquare", it |-> 0]
        ELSE IF ~belongsTo(b[a.r][a.c], t) THEN [out |-> "NotOwnPiece", it |-> 0]
        ELSE IF b[d.r][d.c] # EMPTY THEN [out |-> "DestinationOccupied", it |-> 0]
        ELSE LET it == FindIf([i \in 1 .. Len(lg) |-> sameMove(lg[i], a.r, a.c, d.r, d.c)])
             IN  IF it = 0 THEN [out |-> "NotInLegalSet", it |-> 0]
                 ELSE [out |-> "Applied", it |-> it]

\* cin >> t1 >> t2 succeeds: validate, and apply the move when it is legal
ReadMove ==
    /\ pc = "read"
    /\ ~eof
    /\ Len(inp) >= 2 \/ free < MaxFree
    /\ \E t1 \in Avail(1), t2 \in Avail(2) :
          LET s == submitMove(board, turn, legal, t1, t2)
          IN  IF s.it = 0
              THEN /\ out' = s.out
                   /\ pc' = "loop"
                   /\ UNCHANGED <<board, mv, cur, p, free>>
              ELSE /\ out' = s.out
                   /\ board' = applyMove(board, legal[s.it])
                   /\ mv' = legal[s.it]
                   /\ cur' = <<legal[s.it].tr, legal[s.it].tc>>
                   /\ p' = board[legal[s.it].fr][legal[s.it].fc]
                   /\ pc' = IF legal[s.it].isCapture THEN "chain" ELSE "endturn"
                   /\ free' = IF Len(inp) >= 2 THEN free ELSE free + 1
    /\ inp' = Drop(inp, 2)
    /\ UNCHANGED <<turn, legal, nextCaps, winner, reason, eof>>

\* cin >> t1 >> t2 fails: the loop is left without a winner
ReadMoveEof ==
    /\ pc = "read"
    /\ eof \/ Len(inp) < 2
    /\ eof' = TRUE
    /\ inp' = <<>>
    /\ pc' = "exit"
    /\ out' = "Exit"
    /\ UNCHANGED <<board, turn, legal, nextCaps, mv, cur, p, winner, reason, free>>

\* top of the multi-capture loop
ChainStep ==
    /\ pc = "chain"
    /\ nextCaps' = captureMovesFrom(board, cur[1], cur[2], turn)
    /\ IF nextCaps' = <<>>
       THEN pc' = "endturn" /\ out' = out
       ELSE pc' = "readnext" /\ out' = "ChainPrompt"
    /\ UNCHANGED <<board, turn, legal, mv, cur, p, winner, reason, inp, free, eof>>

\* mutant: a landing square matched by its row alone
submitChainContinuation_rowOnly(caps, tnext) ==
    LET n == Parsed[tnext]
    IN  IF ~n.ok THEN [out |-> "BadSquare", it |-> 0]
        ELSE LET it2 == FindIf([i \in 1 .. Len(caps) |-> caps[i].tr = n.r])
             IN  IF it2 = 0 THEN [out |-> "NotAForcedLanding", it |-> 0]
                 ELSE [out |-> "Applied", it |-> it2]

\* the checks of a chain continuation
submitChainContinuation(caps, tnext) ==
    LET n == Parsed[tnext]
    IN  IF ~n.ok THEN [out |-> "BadSquare", it |-> 0]
        ELSE LET it2 == FindIf([i \in 1 .. Len(caps) |-> caps[i].tr = n.r /\ caps[i].tc = n.c])
             IN  IF it2 = 0 THEN [out |-> "NotAForcedLanding", it |-> 0]
                 ELSE [out |-> "Applied", it |-> it2]

\* mutant: the current position moved to the typed square before it is checked
Continue_moveCursor(tnext, fromInput) ==
    LET s == submitChainContinuation(nextCaps, tnext)
        n == Parsed[tnext]
    IN  /\ out' = s.out
        /\ pc' = "chain"
        /\ IF s.it = 0
           THEN /\ cur' = IF n.ok THEN <<n.r, n.c>> ELSE cur
                /\ UNCHANGED <<board, mv, free>>
           ELSE /\ board' = applyMove(board, nextCaps[s.it])
                /\ mv' = nextCaps[s.it]
                /\ cur' = <<nextCaps[s.it].tr, nextCaps[s.it].tc>>
                /\ free' = IF fromInput THEN free ELSE free + 1

\* the body of the multi-capture loop after cin >> tnext has left tnext
Continue(tnext, fromInput) ==
    LET s == submitChainContinuation(nextCaps, tnext)
    IN  /\ out' = s.out
        /\ pc' = "chain"
        /\ IF s.it = 0
           THEN UNCHANGED <<board, mv, cur, free>>
           ELSE /\ board' = applyMove(board, nextCaps[s.it])
                /\ mv' = nextCaps[s.it]
                /\ cur' = <<nextCaps[s.it].tr, nextCaps[s.it].tc>>
                /\ free' = IF fromInput THEN free ELSE free + 1

\* cin >> tnext succeeds
ReadNext ==
    /\ pc = "readnext"
    /\ ~eof
    /\ Len(inp) >= 1 \/ free < MaxFree
    /\ \E t \in Avail(1) : Continue(t, Len(inp) >= 1)
    /\ inp' = Drop(inp, 1)
    /\ UNCHANGED <<turn, legal, nextCaps, p, winner, reason, eof>>

\* cin >> tnext fails: tnext stays empty, the result of the read is not tested
ReadNextEof ==
    /\ pc = "readnext"
    /\ eof \/ Len(inp) < 1
    /\ eof' = TRUE
    /\ Continue(<<>>, TRUE)
    /\ UNCHANGED <<turn, legal, nextCaps, p, winner, reason, inp>>

\* mutant: the player who captured keeps the move
EndTurn_captureKeepsTurn ==
    /\ pc = "endturn"
    /\ board' = maybePromote(board, cur[1], cur[2])
    /\ turn' = IF mv.isCapture THEN turn ELSE Other(turn)
    /\ pc' = "loop"
    /\ UNCHANGED <<legal, nextCaps, mv, cur, p, out, winner, reason, inp, free, eof>>

\* maybePromote(curR, curC); turn = other player
EndTurn ==
    /\ pc = "endturn"
    /\ board' = maybePromote(board, cur[1], cur[2])
    /\ turn' = Other(turn)
    /\ pc' = "loop"
    /\ UNCHANGED <<legal, nextCaps, mv, cur, p, out, winner, reason, inp, free, eof>>

Next ==
    \/ Start
    \/ GameOver
    \/ TurnStart
    \/ ReadMove
    \/ ReadMoveEof
    \/ ChainStep
    \/ ReadNext
    \/ ReadNextEof
    \/ EndTurn

Spec == Init /\ [][Next]_vars

TypeOK ==
    /\ board \in [Idx -> [Idx -> EMPTY .. B_KING]]
    /\ turn \in Players
    /\ pc \in {"init", "loop", "read", "chain", "readnext", "endturn", "over", "exit"}
    /\ free \in 0 .. MaxFree
    /\ eof \in BOOLEAN
    /\ winner \in {0, WHITE, BLACK}

(* ------------------------- the rules, stated over sets ----------------- *)
\* These definitions restate the rules of the game without the generator's
\* loops; the properties below compare the program with them.
OwnerOf(q) == IF q \in {W_MAN, W_KING} THEN WHITE ELSE IF q \in {B_MAN, B_KING} THEN BLACK ELSE 0

Diagonals == {-1, 1} \X {-1, 1}

OnBoard(r, c) == r \in Idx /\ c \in Idx

\* the directions a piece q of player pl may take
MayGo(q, pl, d) == q \in {W_KING, B_KING} \/ d[1] = (IF pl = WHITE THEN 1 ELSE -1)

Squares == Idx \X Idx

Occupied(b) == {rc \in Squares : b[rc[1]][rc[2]] # EMPTY}

PiecesOf(b, pl) == {rc \in Squares : OwnerOf(b[rc[1]][rc[2]]) = pl}

\* the jumps open to the piece on rc: over an adjacent enemy onto an empty cell
JumpsFrom(b, rc, pl) ==
    {d \in Diagonals :
        /\ OwnerOf(b[rc[1]][rc[2]]) = pl
        /\ MayGo(b[rc[1]][rc[2]], pl, d)
        /\ OnBoard(rc[1] + 2 * d[1], rc[2] + 2 * d[2])
        /\ OwnerOf(b[rc[1] + d[1]][rc[2] + d[2]]) = Other(pl)
        /\ b[rc[1] + 2 * d[1]][rc[2] + 2 * d[2]] = EMPTY}

StepsFrom(b, rc, pl) ==
    {d \in Diagonals :
        /\ OwnerOf(b[rc[1]][rc[2]]) = pl
        /\ MayGo(b[rc[1]][rc[2]], pl, d)
        /\ OnBoard(rc[1] + d[1], rc[2] + d[2])
        /\ b[rc[1] + d[1]][rc[2] + d[2]] = EMPTY}

JumpMoves(b, pl) ==
    UNION {{Mv(rc[1], rc[2], rc[1] + 2 * d[1], rc[2] + 2 * d[2], TRUE, rc[1] + d[1], rc[2] + d[2])
              : d \in JumpsFrom(b, rc, pl)} : rc \in Squares}

StepMoves(b, pl) ==
    UNION {{Mv(rc[1], rc[2], rc[1] + d[1], rc[2] + d[2], FALSE, -1, -1)
              : d \in StepsFrom(b, rc, pl)} : rc \in Squares}

\* an accepted submission: the step out of a read that applies a move
AcceptsInitial == pc = "read" /\ out' = "Applied"
AcceptsContinuation == pc = "readnext" /\ out' = "Applied"
Accepts == AcceptsInitial \/ AcceptsContinuation
Rejects == pc \in {"read", "readnext"} /\ out' \in InitialRejections \cup ChainRejections

(* ------------------------- C1 ------------------------------------------ *)
\* C1 (mandatory capture): on every reachable board and for each player, if
\* some jump exists the legal moves are exactly the jumps, otherwise they are
\* exactly the single steps of that player's pieces; the legal set the loop holds
\* while it reads is that set, and no accepted initial move is a simple move
\* while a jump exists for the active player.
C1_MandatoryCapture ==
    /\ [](\A pl \in Players :
            /\ Range(allCaptures(board, pl)) = JumpMoves(board, pl)
            /\ Range(allLegalMoves(board, pl)) =
                   IF JumpMoves(board, pl) # {} THEN JumpMoves(board, pl) ELSE StepMoves(board, pl))
    /\ [](pc = "read" =>
            Range(legal) = IF JumpMoves(board, turn) # {} THEN JumpMoves(board, turn)
                           ELSE StepMoves(board, turn))
    /\ [][AcceptsInitial /\ JumpMoves(board, turn) # {} => mv'.isCapture]_vars

\* a read at which a jump is forced although some other piece could step
C1_Witness ==
    /\ pc = "read"
    /\ JumpMoves(board, turn) # {}
    /\ \E rc \in PiecesOf(board, turn) :
          JumpsFrom(board, rc, turn) = {} /\ StepsFrom(board, rc, turn) # {}

(* ------------------------- C2 ------------------------------------------ *)
\* the squares the piece on rc can jump to
LandingsFrom(b, rc, pl) == {<<rc[1] + 2 * d[1], rc[2] + 2 * d[2]>> : d \in JumpsFrom(b, rc, pl)}

\* the board after the piece on rc has jumped in direction d
Jumped(b, rc, d) ==
    [r \in Idx |-> [c \in Idx |->
        IF <<r, c>> = <<rc[1] + 2 * d[1], rc[2] + 2 * d[2]>> THEN b[rc[1]][rc[2]]
        ELSE IF <<r, c>> = rc \/ <<r, c>> = <<rc[1] + d[1], rc[2] + d[2]>> THEN EMPTY
        ELSE b[r][c]]]

\* C2 (forced chain continuation): while a continuation is awaited the piece on
\* cur has a jump; a submitted token is accepted exactly when it names a square
\* that piece can jump to; an accepted continuation is a jump of that same piece
\* to the named square, every other submission leaves the chain where it was;
\* and the active player changes only out of the end of a turn, which after a
\* capture is reached only when the piece on cur has no jump left.
C2_ForcedContinuation ==
    /\ [](pc = "readnext" =>
            /\ JumpsFrom(board, cur, turn) # {}
            /\ \A t \in Tokens \cup {<<>>} :
                  (submitChainContinuation(nextCaps, t).it # 0)
                      <=> (Parsed[t].ok /\ <<Parsed[t].r, Parsed[t].c>> \in LandingsFrom(board, cur, turn)))
    /\ [][pc = "readnext" =>
            /\ turn' = turn
            /\ pc' = "chain"
            /\ \/ /\ out' \in ChainRejections
                  /\ board' = board
                  /\ cur' = cur
               \/ /\ out' = "Applied"
                  /\ \E d \in JumpsFrom(board, cur, turn) :
                        /\ cur' = <<cur[1] + 2 * d[1], cur[2] + 2 * d[2]>>
                        /\ board' = Jumped(board, cur, d)]_vars
    /\ [][turn' # turn =>
            /\ pc = "endturn"
            /\ mv.isCapture => JumpsFrom(board, cur, turn) = {}]_vars

\* a typed continuation has been accepted: the piece on cur has just made the
\* jump it was forced to
C2_Witness ==
    /\ pc = "chain"
    /\ out = "Applied"
    /\ free > 0
    /\ nextCaps # <<>>
    /\ mv \in Range(nextCaps)
    /\ <<mv.tr, mv.tc>> = cur

(* ------------------------- C3 ------------------------------------------ *)
\* C3 (a rejection changes nothing): a rejected submission leaves the board, the
\* active player and the chain's piece position as they were and returns to the
\* top of the loop it was read in; and from there the program asks for the same
\* kind of input again, with the same legal moves or forced landings.
C3_RejectionChangesNothing ==
    /\ [][Rejects =>
            /\ board' = board
            /\ turn' = turn
            /\ cur' = cur
            /\ pc' = (IF pc = "read" THEN "loop" ELSE "chain")
            /\ (pc = "read") = (out' \in InitialRejections)]_vars
    /\ [][pc = "loop" /\ out \in InitialRejections =>
            pc' = "read" /\ board' = board /\ turn' = turn /\ legal' = legal]_vars
    /\ [][pc = "chain" /\ out \in ChainRejections =>
            pc' = "readnext" /\ board' = board /\ turn' = turn /\ cur' = cur /\ nextCaps' = nextCaps]_vars

\* a continuation was refused for not being a forced landing, from typed input
C3_Witness == pc = "chain" /\ out = "NotAForcedLanding" /\ ~eof /\ nextCaps # <<>>

(* ------------------------- C4 ------------------------------------------ *)
\* C4 (game over): when the top of the loop finds a player without pieces, or
\* the active player with pieces and without a legal move, the next step declares
\* the other player the winner; and once a winner is declared nothing changes
\* any more.
C4_GameOver ==
    /\ [][pc = "loop" =>
            /\ \A pl \in Players : PiecesOf(board, pl) = {} => pc' = "over" /\ winner' = Other(pl)
            /\ (PiecesOf(board, turn) # {} /\ PiecesOf(board, Other(turn)) # {}
                   /\ JumpMoves(board, turn) \cup StepMoves(board, turn) = {})
                 => pc' = "over" /\ winner' = Other(turn)]_vars
    /\ [](winner # 0 <=> pc = "over")
    /\ [][pc = "over" => FALSE]_vars

\* the player to move has pieces, but none of them can move: the other has won
C4_Witness ==
    /\ pc = "over"
    /\ winner = Other(turn)
    /\ PiecesOf(board, turn) # {}
    /\ JumpMoves(board, turn) \cup StepMoves(board, turn) = {}

(* ------------------------- C5 ------------------------------------------ *)
\* C5 as claimed: on entering a player's turn the game ends with a win of that
\* player for NoPieces exactly when the opponent has no piece, otherwise with a
\* win of the opponent for NoLegalMoves exactly when the player has no legal
\* move, otherwise the initial move is awaited.
C5_AsClaimed ==
    /\ pc = "over" =>
          IF countPieces(board, Other(turn)) = 0
          THEN winner = turn /\ reason = "NoPieces"
          ELSE winner = Other(turn) /\ reason = "NoLegalMoves" /\ allLegalMoves(board, turn) = <<>>
    /\ pc = "read" => countPieces(board, Other(turn)) # 0 /\ allLegalMoves(board, turn) # <<>>

\* C5 as amended: on entering a player's turn the opponent always has a piece;
\* the game ends with a win of the opponent for NoPieces exactly when the player
\* entering the turn has no piece, otherwise with a win of the opponent for
\* NoLegalMoves exactly when that player has no legal move, otherwise the initial
\* move is awaited.
C5_TurnStartClassification ==
    /\ pc \in {"loop", "read", "over"} => PiecesOf(board, Other(turn)) # {}
    /\ pc = "over" =>
          IF PiecesOf(board, turn) = {}
          THEN winner = Other(turn) /\ reason = "NoPieces"
          ELSE winner = Other(turn) /\ reason = "NoLegalMoves"
                  /\ JumpMoves(board, turn) \cup StepMoves(board, turn) = {}
    /\ pc = "read" =>
          PiecesOf(board, turn) # {} /\ JumpMoves(board, turn) \cup StepMoves(board, turn) # {}

\* the player entering the turn has lost the last piece
C5_Witness == pc = "over" /\ reason = "NoPieces" /\ PiecesOf(board, turn) = {} /\ winner = Other(turn)

(* ------------------------- C6 ------------------------------------------ *)
\* C6 (piece counts): every accepted move, initial or continuation, leaves the
\* mover's piece count as it was and lowers the opponent's by exactly 1 when the
\* move is a capture and by 0 when it is not.
C6_PieceCountEffect ==
    [][Accepts =>
         /\ countPieces(board', turn) = countPieces(board, turn)
         /\ countPieces(board', Other(turn)) =
                countPieces(board, Other(turn)) - (IF mv'.isCapture THEN 1 ELSE 0)
         /\ Cardinality(PiecesOf(board', turn)) = Cardinality(PiecesOf(board, turn))
         /\ Cardinality(PiecesOf(board', Other(turn))) =
                Cardinality(PiecesOf(board, Other(turn))) - (IF mv'.isCapture THEN 1 ELSE 0)]_vars

\* a typed capture has just been applied and has taken a piece
C6_Witness ==
    /\ pc = "chain"
    /\ out = "Applied"
    /\ mv.isCapture
    /\ free > 0
    /\ board[mv.cr][mv.cc] = EMPTY

(* ------------------------- C7 ------------------------------------------ *)
\* what the piece q is once it rests on row r at the end of a turn
AtRest(q, r) ==
    IF q = W_MAN /\ r = 7 THEN W_KING
    ELSE IF q = B_MAN /\ r = 0 THEN B_KING
    ELSE q

\* C7 (promotion at the end of the turn only): through the whole turn the moving
\* piece is the piece picked up at its start; the end of the turn puts on its
\* final square the king of that player when it is a man on its promotion rank
\* and changes no other cell, so that is what the opponent's turn starts with;
\* and no step of a turn changes what any other cell holds except to empty it.
C7_PromotionAtEndOfTurn ==
    /\ [](pc \in {"chain", "readnext", "endturn"} => p # EMPTY /\ board[cur[1]][cur[2]] = p)
    /\ [](pc = "loop" /\ cur # NoPos => board[cur[1]][cur[2]] = AtRest(p, cur[1]))
    /\ [][pc = "endturn" =>
            /\ pc' = "loop"
            /\ cur' = cur
            /\ p' = p
            /\ \A rc \in Squares : rc # cur => board'[rc[1]][rc[2]] = board[rc[1]][rc[2]]]_vars
    /\ [][pc # "init" /\ board' # board =>
            \A rc \in Squares :
                rc # cur' => board'[rc[1]][rc[2]] \in {board[rc[1]][rc[2]], EMPTY}]_vars

\* a man has ended its turn on its promotion rank and the next turn starts with
\* a king there
C7_Witness ==
    /\ pc = "loop"
    /\ cur # NoPos
    /\ p \in {W_MAN, B_MAN}
    /\ isKing(board[cur[1]][cur[2]])
    /\ free > 0

(* ------------------------- C8 ------------------------------------------ *)
\* C8 (dark squares): every occupied cell (r, c) has r + c odd, and every move
\* applied goes from a dark square to a dark square.
C8_DarkSquares ==
    /\ \A rc \in Occupied(board) : (rc[1] + rc[2]) % 2 = 1
    /\ mv # NoMove => (mv.fr + mv.fc) % 2 = 1 /\ (mv.tr + mv.tc) % 2 = 1

\* a typed simple move has been applied
C8_Witness ==
    /\ pc = "endturn"
    /\ free > 0
    /\ ~mv.isCapture
    /\ board[mv.tr][mv.tc] # EMPTY
    /\ board[mv.fr][mv.fc] = EMPTY

(* ------------------------- C9 ------------------------------------------ *)
\* C9 (piece total): initialisation leaves 24 occupied cells, 12 of each player;
\* no reachable state has more than 24; and no later step increases the number.
C9_PieceTotal ==
    /\ [](Cardinality(Occupied(board)) <= 24)
    /\ [][pc = "init" =>
            /\ Cardinality(Occupied(board')) = 24
            /\ \A pl \in Players : Cardinality(PiecesOf(board', pl)) = 12]_vars
    /\ [][pc # "init" /\ board' # board =>
            Cardinality(Occupied(board')) <= Cardinality(Occupied(board))]_vars

\* captures have brought the total below the initial 24
C9_Witness ==
    /\ pc = "loop"
    /\ free > 0
    /\ Cardinality(Occupied(board)) < 24
    /\ out = "Applied"

(* ------------------------- C10 ----------------------------------------- *)
\* C10 (capture geometry): every capture applied lands exactly two diagonal
\* steps from its origin, its captured position is the cell between the two,
\* that cell held a piece of the opponent just before and is empty just after.
C10_CaptureGeometry ==
    [][Accepts /\ mv'.isCapture =>
         \E d \in Diagonals :
            /\ mv'.tr = mv'.fr + 2 * d[1]
            /\ mv'.tc = mv'.fc + 2 * d[2]
            /\ mv'.cr = mv'.fr + d[1]
            /\ mv'.cc = mv'.fc + d[2]
            /\ OwnerOf(board[mv'.fr][mv'.fc]) = turn
            /\ OwnerOf(board[mv'.cr][mv'.cc]) = Other(turn)
            /\ board'[mv'.cr][mv'.cc] = EMPTY]_vars

\* a king has captured backwards from typed input
C10_Witness ==
    /\ pc = "chain"
    /\ out = "Applied"
    /\ free > 0
    /\ mv.isCapture
    /\ isKing(p)
    /\ mv.tr - mv.fr = -forwardDir(turn) * 2

(* ------------------------- C11 ----------------------------------------- *)
\* the legal moves of a player by the rules: the jumps when there is one,
\* otherwise the steps
LegalSet(b, pl) == IF JumpMoves(b, pl) # {} THEN JumpMoves(b, pl) ELSE StepMoves(b, pl)

\* C11 (initial-move acceptance): while an initial move is awaited the legal set
\* held is the one of the current board, and a submitted pair of squares is
\* accepted exactly when the destination is dark, the origin holds a piece of the
\* active player, the destination is empty and some legal move has that origin
\* and destination; the move then applied is a move of the legal set.
C11_InitialAcceptance ==
    /\ [](pc = "read" =>
            /\ legal = allLegalMoves(board, turn)
            /\ LET pairs == { <<m.fr, m.fc, m.tr, m.tc>> : m \in LegalSet(board, turn) }
               IN  \A t1 \in Tokens, t2 \in Tokens :
                     (submitMove(board, turn, legal, t1, t2).it # 0)
                        <=> /\ Parsed[t1].ok
                            /\ Parsed[t2].ok
                            /\ (Parsed[t2].r + Parsed[t2].c) % 2 = 1
                            /\ OwnerOf(board[Parsed[t1].r][Parsed[t1].c]) = turn
                            /\ board[Parsed[t2].r][Parsed[t2].c] = EMPTY
                            /\ <<Parsed[t1].r, Parsed[t1].c, Parsed[t2].r, Parsed[t2].c>>
                                  \in pairs)
    /\ [][AcceptsInitial =>
            /\ mv' \in LegalSet(board, turn)
            /\ cur' = <<mv'.tr, mv'.tc>>
            /\ board'[mv'.tr][mv'.tc] = board[mv'.fr][mv'.fc]]_vars
    /\ [][pc = "read" /\ board' # board => out' = "Applied"]_vars

\* a typed initial move has been accepted while another piece of the mover
\* had a legal move too
C11_Witness ==
    /\ pc \in {"chain", "endturn"}
    /\ out = "Applied"
    /\ free > 0
    /\ nextCaps = <<>>
    /\ mv \in Range(legal)
    /\ \E m \in Range(legal) : <<m.fr, m.fc>> # <<mv.fr, mv.fc>>

(* ------------------------- C12 ----------------------------------------- *)
\* C12 (end of input), as claimed: once the end of input has been met at an
\* input request, initial or continuation, the program has terminated and no
\* winner has been declared.  The read of a continuation (line 474) does not
\* test the stream: at end of input the token is empty, is refused as a bad
\* square, and the loop asks again.
C12_AsClaimed == eof => (pc = "exit" /\ winner = 0)

(* ------------------------- C13 ----------------------------------------- *)
\* the standard layout: twelve men a side on the dark squares of the three rows
\* nearest their owner
StandardLayout ==
    [r \in Idx |-> [c \in Idx |->
        IF (r + c) % 2 = 0 THEN EMPTY
        ELSE IF r <= 2 THEN W_MAN
        ELSE IF r >= 5 THEN B_MAN
        ELSE EMPTY]]

\* the opening b3 -> a4, i.e. (2,1) -> (3,0)
OpeningMove == Mv(2, 1, 3, 0, FALSE, -1, -1)

\* C13 (turn alternation): play starts with Player1 on the standard layout; a
\* turn completes exactly after an accepted non-capture initial move or after a
\* capture once the moving piece has no further capture; the active player
\* changes only at the completion of a turn, and then to the other player; the
\* opening (2,1) -> (3,0) is accepted on the standard layout and completes the
\* turn.
C13_TurnAlternation ==
    /\ [][pc = "init" => turn' = WHITE /\ board' = StandardLayout]_vars
    /\ [][pc' = "endturn" /\ pc # "endturn" =>
            \/ AcceptsInitial /\ ~mv'.isCapture
            \/ pc = "chain" /\ mv.isCapture /\ JumpsFrom(board, cur, turn) = {}]_vars
    /\ [][AcceptsInitial /\ ~mv'.isCapture => pc' = "endturn"]_vars
    /\ [][pc = "chain" /\ JumpsFrom(board, cur, turn) = {} => pc' = "endturn"]_vars
    /\ [][pc = "endturn" => turn' = 3 - turn /\ pc' = "loop"]_vars
    /\ [][turn' # turn => pc = "endturn"]_vars
    /\ [](pc = "read" /\ board = StandardLayout =>
            /\ turn = WHITE
            /\ submitMove(board, turn, legal, <<"b", "3">>, <<"a", "4">>).it # 0
            /\ legal[submitMove(board, turn, legal, <<"b", "3">>, <<"a", "4">>).it] = OpeningMove)

\* the opening (2,1) -> (3,0) has been played and Player2 is to move
C13_Witness ==
    /\ pc = "loop"
    /\ turn = BLACK
    /\ mv = OpeningMove
    /\ board = [StandardLayout EXCEPT ![2][1] = EMPTY, ![3][0] = W_MAN]

(* ------------------------- C14 ----------------------------------------- *)
\* captureMovesFrom on its own: called on a square of a board that holds, around
\* that square, at most MaxOthers other pieces.
MaxOthers == 2

\* the squares the generator is called on: interior, edge and corner cells
GenSquares == { <<2, 1>>, <<4, 3>>, <<3, 0>>, <<0, 1>>, <<7, 6>>, <<6, 7>> }

\* the cells one and two diagonal steps away from pos
Around(pos) ==
    { rc \in Squares : \E d \in Diagonals, k \in {1, 2} :
                          rc = <<pos[1] + k * d[1], pos[2] + k * d[2]>> }

GenInit ==
    /\ \E pos \in GenSquares, q \in {EMPTY, W_MAN, W_KING, B_MAN, B_KING} :
         \E S \in { T \in SUBSET Around(pos) : Cardinality(T) <= MaxOthers } :
            \E f \in [S -> {W_MAN, W_KING, B_MAN, B_KING}] :
               /\ cur = pos
               /\ board = [r \in Idx |-> [c \in Idx |->
                             IF <<r, c>> = pos THEN q
                             ELSE IF <<r, c>> \in S THEN f[<<r, c>>]
                             ELSE EMPTY]]
    /\ turn \in Players
    /\ pc = "gen"
    /\ legal = <<>>
    /\ nextCaps = <<>>
    /\ mv = NoMove
    /\ p = EMPTY
    /\ out = "None"
    /\ winner = 0
    /\ reason = "None"
    /\ inp = <<>>
    /\ free = 0
    /\ eof = FALSE

\* nextCaps = captureMovesFrom(curR, curC, turn)
Generate ==
    /\ pc = "gen"
    /\ nextCaps' = captureMovesFrom(board, cur[1], cur[2], turn)
    /\ pc' = "generated"
    /\ UNCHANGED <<board, turn, legal, mv, cur, p, out, winner, reason, inp, free, eof>>

GenNext == Generate

SpecGen == GenInit /\ [][GenNext]_vars

\* C14 (captureMovesFrom): the result holds exactly one capture for each
\* direction of the piece (the two forward diagonals of a man, forward being
\* rising rows for Player1 and falling rows for Player2; the four diagonals of a
\* king) whose adjacent cell is in bounds with an enemy piece and whose next
\* cell is in bounds and empty, with destination pos+2d and captured position
\* pos+d, and nothing else; it is empty when pos holds no piece of the player;
\* a Player1 man on (2,1) with a Player2 man on (3,2) and (4,3) empty gives the
\* single move to (4,3) capturing (3,2).
C14_CaptureMovesFrom ==
    pc = "generated" =>
        LET q == board[cur[1]][cur[2]]
            fwd == IF turn = WHITE THEN 1 ELSE -1
            mine == IF turn = WHITE THEN {W_MAN, W_KING} ELSE {B_MAN, B_KING}
            theirs == IF turn = WHITE THEN {B_MAN, B_KING} ELSE {W_MAN, W_KING}
            dirs == IF q \in {W_KING, B_KING} THEN Diagonals
                    ELSE { d \in Diagonals : d[1] = fwd }
            good == { d \in dirs :
                        /\ q \in mine
                        /\ OnBoard(cur[1] + d[1], cur[2] + d[2])
                        /\ OnBoard(cur[1] + 2 * d[1], cur[2] + 2 * d[2])
                        /\ board[cur[1] + d[1]][cur[2] + d[2]] \in theirs
                        /\ board[cur[1] + 2 * d[1]][cur[2] + 2 * d[2]] = EMPTY }
        IN  /\ Range(nextCaps) =
                 { Mv(cur[1], cur[2], cur[1] + 2 * d[1], cur[2] + 2 * d[2],
                      TRUE, cur[1] + d[1], cur[2] + d[2]) : d \in good }
            /\ Len(nextCaps) = Cardinality(good)
            /\ (q \notin mine => nextCaps = <<>>)
            /\ (cur = <<2, 1>> /\ turn = WHITE /\ q = W_MAN
                   /\ board[3][2] = B_MAN /\ board[4][3] = EMPTY)
                 => nextCaps = << Mv(2, 1, 4, 3, TRUE, 3, 2) >>

\* the example of the claim: the man on (2,1) has the one capture over (3,2)
C14_Witness ==
    /\ pc = "generated"
    /\ cur = <<2, 1>>
    /\ turn = WHITE
    /\ board[2][1] = W_MAN
    /\ board[3][2] = B_MAN
    /\ board[1][0] = B_KING
    /\ nextCaps = << Mv(2, 1, 4, 3, TRUE, 3, 2) >>

(* ------------------------- C15 ----------------------------------------- *)
\* C15 (men only advance): every accepted move, initial or continuation, takes
\* the piece from its origin to its destination; when the piece is a man its
\* row changes toward the opponent's side, by 1 in a simple move and by 2 in a
\* capture; a piece moved backward is a king; and every simple move, offered or
\* accepted, is one diagonal step onto an empty cell of the board.
C15_MenOnlyAdvance ==
    /\ [][Accepts /\ board' # board =>
            LET q == board[mv'.fr][mv'.fc]
                dr == mv'.tr - mv'.fr
                dc == mv'.tc - mv'.fc
                far == IF mv'.isCapture THEN 2 ELSE 1
            IN  /\ q # EMPTY
                /\ board'[mv'.tr][mv'.tc] = q
                /\ board'[mv'.fr][mv'.fc] = EMPTY
                /\ dc \in {-far, far}
                /\ dr \in {-far, far}
                /\ (q = W_MAN => dr = far)
                /\ (q = B_MAN => dr = -far)
                /\ (q \in {W_MAN, W_KING} /\ dr < 0 => q = W_KING)
                /\ (q \in {B_MAN, B_KING} /\ dr > 0 => q = B_KING)
                /\ (~mv'.isCapture =>
                      /\ OnBoard(mv'.tr, mv'.tc)
                      /\ board[mv'.tr][mv'.tc] = EMPTY)]_vars
    /\ [][Accepts => board' # board]_vars
    /\ [](pc = "read" =>
            \A i \in 1 .. Len(legal) :
               ~legal[i].isCapture =>
                  /\ OnBoard(legal[i].tr, legal[i].tc)
                  /\ board[legal[i].tr][legal[i].tc] = EMPTY
                  /\ legal[i].tr - legal[i].fr \in {-1, 1}
                  /\ legal[i].tc - legal[i].fc \in {-1, 1}
                  /\ (board[legal[i].fr][legal[i].fc] = W_MAN => legal[i].tr = legal[i].fr + 1)
                  /\ (board[legal[i].fr][legal[i].fc] = B_MAN => legal[i].tr = legal[i].fr - 1))

\* a king has been moved backward by a typed move
C15_Witness ==
    /\ pc \in {"chain", "endturn"}
    /\ out = "Applied"
    /\ free > 0
    /\ \/ p = W_KING /\ mv.tr < mv.fr
       \/ p = B_KING /\ mv.tr > mv.fr

(* ------------------------- C16 ----------------------------------------- *)
\* C16 (applyMove frame): the step that applies an accepted move puts on the
\* destination the value the origin held, empties the origin, empties the
\* captured position when the move is a capture, and leaves every other cell
\* as it was; the piece put down is the piece picked up, the same owner and
\* the same rank, also on the last row.
C16_ApplyMoveFrame ==
    [][Accepts /\ board' # board =>
         /\ \A rc \in Squares :
               board'[rc[1]][rc[2]] =
                  IF rc = <<mv'.tr, mv'.tc>> THEN board[mv'.fr][mv'.fc]
                  ELSE IF rc = <<mv'.fr, mv'.fc>> THEN EMPTY
                  ELSE IF mv'.isCapture /\ rc = <<mv'.cr, mv'.cc>> THEN EMPTY
                  ELSE board[rc[1]][rc[2]]
         /\ board[mv'.fr][mv'.fc] # EMPTY
         /\ OwnerOf(board'[mv'.tr][mv'.tc]) = OwnerOf(board[mv'.fr][mv'.fc])
         /\ isKing(board'[mv'.tr][mv'.tc]) = isKing(board[mv'.fr][mv'.fc])
         /\ <<mv'.fr, mv'.fc>> # <<mv'.tr, mv'.tc>>
         /\ (mv'.isCapture =>
               <<mv'.cr, mv'.cc>> \notin {<<mv'.fr, mv'.fc>>, <<mv'.tr, mv'.tc>>})]_vars

\* a man has just been put down on its last row by a capture and is still a man
C16_Witness ==
    /\ pc = "chain"
    /\ out = "Applied"
    /\ mv.isCapture
    /\ \/ board[mv.tr][mv.tc] = W_MAN /\ mv.tr = N - 1
       \/ board[mv.tr][mv.tc] = B_MAN /\ mv.tr = 0
    /\ board[mv.fr][mv.fc] = EMPTY
    /\ board[mv.cr][mv.cc] = EMPTY

(* ------------------------- C17 ----------------------------------------- *)
\* parseSquare on its own: called on every token of at most MaxTokenLen
\* characters over letters inside and outside a-h in both cases, digits inside
\* and outside 1-8, and a punctuation mark.
MaxTokenLen == 3

ParseChars == {"a", "h", "i", "C", "Z", "1", "8", "9", "0", "-"}

ParseTokens == UNION { [1 .. k -> ParseChars] : k \in 0 .. MaxTokenLen }

ParseInit ==
    /\ inp \in { <<t>> : t \in ParseTokens }
    /\ pc = "parse"
    /\ board = ZeroBoard
    /\ turn = WHITE
    /\ legal = <<>>
    /\ nextCaps = <<>>
    /\ mv = NoMove
    /\ cur = NoPos
    /\ p = EMPTY
    /\ out = "None"
    /\ winner = 0
    /\ reason = "None"
    /\ free = 0
    /\ eof = FALSE

\* bool ok = parseSquare(token, r, c)
Parse ==
    /\ pc = "parse"
    /\ LET res == parseSquare(inp[1])
       IN  /\ out' = IF res.ok THEN "ParseOk" ELSE "ParseFailed"
           /\ cur' = IF res.ok THEN <<res.r, res.c>> ELSE cur
    /\ pc' = "parsed"
    /\ UNCHANGED <<board, turn, legal, nextCaps, mv, p, winner, reason, inp, free, eof>>

ParseNext == Parse

SpecParse == ParseInit /\ [][ParseNext]_vars

\* the least member of a non-empty set of places
Least(S) == CHOOSE i \in S : \A j \in S : i <= j

\* C17 (coordinate parsing): the file is the first letter of the token, in
\* either case, and the rank its first digit, each found without regard to the
\* other, to their order or to any other character; parsing succeeds, with
\* column = file - 'a' and row = rank - '1', exactly when that letter is one of
\* a-h and that digit one of 1-8, and fails otherwise.
C17_ParseSquare ==
    pc = "parsed" =>
        LET t  == inp[1]
            L  == { i \in 1 .. Len(t) : t[i] \in Range(Lower) \cup Range(Upper) }
            D  == { i \in 1 .. Len(t) : t[i] \in Range(Digit) }
            fileOk == L # {} /\ \E k \in 1 .. 8 : t[Least(L)] \in {Lower[k], Upper[k]}
            rankOk == D # {} /\ \E k \in 1 .. 8 : t[Least(D)] = Digit[k + 1]
        IN  /\ out = "ParseOk" <=> (fileOk /\ rankOk)
            /\ out = "ParseFailed" <=> ~(fileOk /\ rankOk)
            /\ fileOk /\ rankOk =>
                  /\ t[Least(L)] \in {Lower[cur[2] + 1], Upper[cur[2] + 1]}
                  /\ t[Least(D)] = Digit[cur[1] + 2]
            /\ ~(fileOk /\ rankOk) => cur = NoPos

\* "8-C" has been parsed as row 7, column 2: digit first, an upper-case file, and
\* a character between them
C17_Witness ==
    /\ pc = "parsed"
    /\ inp = << <<"8", "-", "C">> >>
    /\ out = "ParseOk"
    /\ cur = <<7, 2>>

(* ------------------------- C18 ----------------------------------------- *)
\* the men standing on their promotion rank
MenOnLastRow(b) ==
    { rc \in Squares : \/ b[rc[1]][rc[2]] = W_MAN /\ rc[1] = 7
                       \/ b[rc[1]][rc[2]] = B_MAN /\ rc[1] = 0 }

\* C18 (no man waits on its promotion rank): whenever input is awaited, for an
\* initial move or for a continuation, no Player1 man is on row 7 and no
\* Player2 man on row 0; a man is on its promotion rank only as the piece just
\* moved by the active player, before the end of its turn, and there it has no
\* capture, so its chain ends and it is crowned before input is asked again.
C18_NoManWaitsOnLastRow ==
    /\ pc \in {"read", "readnext"} =>
          \A c \in Idx : board[7][c] # W_MAN /\ board[0][c] # B_MAN
    /\ \A rc \in MenOnLastRow(board) :
          /\ pc \in {"chain", "endturn"}
          /\ rc = cur
          /\ OwnerOf(board[rc[1]][rc[2]]) = turn
          /\ JumpsFrom(board, rc, turn) = {}
          /\ captureMovesFrom(board, rc[1], rc[2], turn) = <<>>

\* a man has reached its promotion rank by a capture and its turn is ending
C18_Witness ==
    /\ pc = "endturn"
    /\ mv.isCapture
    /\ cur \in MenOnLastRow(board)
    /\ free > 0

(* ------------------------- C20 ----------------------------------------- *)
\* no two entries of the list of moves s have the same origin and destination
DistinctPairs(s) ==
    \A i \in 1 .. Len(s), j \in 1 .. Len(s) :
       i # j => <<s[i].fr, s[i].fc, s[i].tr, s[i].tc>> # <<s[j].fr, s[j].fc, s[j].tr, s[j].tc>>

\* no two entries of the list of moves s have the same destination
DistinctLandings(s) ==
    \A i \in 1 .. Len(s), j \in 1 .. Len(s) :
       i # j => <<s[i].tr, s[i].tc>> # <<s[j].tr, s[j].tc>>

\* C20 (a submission identifies at most one move): on every board of the game
\* and for either player, no two moves of allLegalMoves have the same origin
\* and destination, and no two moves of captureMovesFrom of one square have the
\* same destination; so with the lists held while input is awaited.
C20_SubmissionIdentifiesOneMove ==
    /\ \A pl \in Players : DistinctPairs(allLegalMoves(board, pl))
    /\ \A pl \in Players, rc \in Squares :
          DistinctLandings(captureMovesFrom(board, rc[1], rc[2], pl))
    /\ pc = "read" => DistinctPairs(legal) /\ legal = allLegalMoves(board, turn)
    /\ pc = "readnext" =>
          /\ DistinctLandings(nextCaps)
          /\ nextCaps = captureMovesFrom(board, cur[1], cur[2], turn)

\* a typed initial move has been accepted where another piece could move onto
\* the same square: the origin told the two moves apart
C20_Witness ==
    /\ out = "Applied"
    /\ free > 0
    /\ pc = "endturn"
    /\ mv \in Range(legal)
    /\ \E m \in Range(legal) : m # mv /\ <<m.tr, m.tc>> = <<mv.tr, mv.tc>>

(* ------------------------- C19 ----------------------------------------- *)
\* The program runs on: the chain loop and the end of the turn are steps of
\* main, a read returns (with a token or at the end of input), and the player
\* asked for a continuation eventually submits a forced landing square as long
\* as input is left.
LiveSpec ==
    /\ Spec
    /\ WF_vars(ChainStep)
    /\ WF_vars(EndTurn)
    /\ WF_vars(ReadNext \/ ReadNextEof)
    /\ SF_vars(ReadNext /\ out' = "Applied")

\* C19 (every chain ends): each accepted continuation removes exactly one piece
\* of the opponent and none of the mover, and a side never has more than 12
\* pieces, so at most 12 captures are accepted in a turn; provided the player
\* submits a forced landing square whenever one is asked for (the input does
\* not end), a turn that has started with a capture reaches the end of the
\* turn, where the promotion check is made and the other player becomes active.
C19_EveryChainEnds ==
    /\ [][AcceptsContinuation /\ board' # board =>
            /\ mv'.isCapture
            /\ Cardinality(PiecesOf(board', 3 - turn)) = Cardinality(PiecesOf(board, 3 - turn)) - 1
            /\ PiecesOf(board', 3 - turn) = PiecesOf(board, 3 - turn) \ {<<mv'.cr, mv'.cc>>}
            /\ Cardinality(PiecesOf(board', turn)) = Cardinality(PiecesOf(board, turn))]_vars
    /\ [](\A pl \in Players : Cardinality(PiecesOf(board, pl)) <= 12)
    /\ [](pc \in {"chain", "readnext"} => mv.isCapture /\ Cardinality(PiecesOf(board, 3 - turn)) <= 11)
    /\ \A pl \in Players :
          (pc = "chain" /\ turn = pl /\ ~eof) ~> (eof \/ (pc = "endturn" /\ turn = pl))
    /\ \A pl \in Players :
          (pc = "endturn" /\ turn = pl) ~> (pc = "loop" /\ turn = 3 - pl)

\* a turn in which a continuation was typed and accepted has ended with the
\* other player active
C19_Witness ==
    /\ pc = "loop"
    /\ free > 0
    /\ mv.isCapture
    /\ mv \notin Range(legal)
    /\ board[mv.fr][mv.fc] = EMPTY
    /\ OwnerOf(board[mv.tr][mv.tc]) = 3 - turn

====
